---- MODULE Spec2Model ----
(***************************************************************************)
(* State-machine model of MemoRableClient, the MCP StreamableHTTP client   *)
(* of src/clients/python/memorable_client.py: the JSON-RPC request path    *)
(* (_mcp_request), the tool invoker (_call_tool) and the session           *)
(* life cycle (connect, close).                                            *)
(*                                                                         *)
(* A coroutine runs without interruption between two network waits, so one *)
(* action is the code executed from one wait to the next:                  *)
(*   - the wait on session.post (the response's status line and headers),  *)
(*   - the wait on resp.text() / resp.json() (the body),                   *)
(*   - the wait on ClientSession.close().                                  *)
(* The server and the network are the environment: each response (or the   *)
(* failure of the transfer) is chosen nondeterministically.                *)
(***************************************************************************)
EXTENDS Integers, Sequences, FiniteSets, TLC

VARIABLES
    request_id,      \* self._request_id
    mcp_session_id,  \* self._mcp_session_id
    initialized,     \* self._initialized
    session,         \* self._session: "none" (None), "open" or "closed"
    pc,              \* per task: "idle", "post", "body", "probe", "closing"
    op,              \* per task: the public operation it runs (or ran last)
    cur,             \* per task: the request it has in flight
    res,             \* per task: how its last operation ended
    sent,            \* history: every request handed to session.post
    fin,             \* history: the request that finished in the last step
    prev_hdr,        \* history: session id header of the latest response
    known_sid,       \* history: latest session id received since close()
    id_floor,        \* history: greatest id issued before the last close()
    mark,            \* per task, history: the client at the operation's start
    app,             \* per task: the entry point that runs and its await
    job              \* a function of the module applied to one input

vars == <<request_id, mcp_session_id, initialized, session, pc, op, cur, res,
          sent, fin, prev_hdr, known_sid, id_floor, mark, app, job>>

\* The variables of the client.
client == <<request_id, mcp_session_id, initialized, session, pc, op, cur,
            res, sent, fin, prev_hdr, known_sid, id_floor, mark, app>>

(***************************************************************************)
(* Bounds of the model.                                                    *)
(***************************************************************************)
\* Requests posted in one behaviour.
MaxSent == 4

\* The logical tasks (coroutines) that may use the one client.
Tasks == {"t1", "t2"}
\* Single-flight use: one task issues the operations, one after the other.
SingleFlight == {"t1"}

(***************************************************************************)
(* Python values.  None for optional strings; JSON values are tagged.      *)
(***************************************************************************)
None == "<None>"

JNull == [k |-> "null"]
JBool(b) == [k |-> "bool", v |-> b]
JNum(n) == [k |-> "num", v |-> n]
JStr(x) == [k |-> "str", v |-> x]
JList(q) == [k |-> "list", v |-> q]
JMap(f) == [k |-> "map", v |-> f]

\* Python truthiness of an Optional[str] (`if sid:`, `if self._mcp_session_id:`).
TruthyStr(x) == x # None /\ x # ""

\* Python truthiness of a decoded JSON value (`if result and ...`).
Truthy(x) ==
    CASE x.k = "null" -> FALSE
      [] x.k = "bool" -> x.v
      [] x.k = "num" -> x.v # 0
      [] x.k = "str" -> x.v # ""
      [] x.k = "list" -> Len(x.v) > 0
      [] x.k = "map" -> DOMAIN x.v # {}

\* How a coroutine ends: it returns a value or raises an exception.
Return(x) == [kind |-> "return", val |-> x]
Raise(type, msg) == [kind |-> "raise", val |-> [type |-> type, msg |-> msg]]
NoOutcome == [kind |-> "none", val |-> JNull]

(***************************************************************************)
(* The environment's inputs: what a server can answer.                     *)
(***************************************************************************)
\* Tool names callers pass to _call_tool (store, recall).
ToolNames == {"store_memory", "recall"}

\* resp.headers.get("Mcp-Session-Id"): None when the header is absent, else
\* the session id the server assigned (MCP: visible ASCII characters).
SidHeaders == {None, "s1", "s2"}

\* HTTP status codes; the code tells 202 and 204 from every other one.
Statuses == {200, 202, 204, 400}

\* The statuses the health endpoint answers with.
ProbeStatuses == {200, 204, 503}

\* resp.content_type.
ContentTypes == {"application/json", "text/event-stream", "text/plain"}

\* JSON-RPC error payloads: an object, and a string that reads like it.
ErrObj == JMap([code |-> JNum(-32000), message |-> JStr("boom")])
ErrText == JStr("{'code': -32000, 'message': 'boom'}")

\* Tool results (the "result" member of a tools/call response).
MemoryText == "{\"memoryId\": \"m1\"}"
MemoryMap == JMap([memoryId |-> JStr("m1")])
Block(text) == JMap([type |-> JStr("text"), text |-> text])
Content(q) == JMap([content |-> JList(q)])

\* json.loads on the texts of the model: [ok, doc], ok = FALSE standing for
\* json.JSONDecodeError.  In a text, ERROBJ abbreviates the JSON text of
\* ErrObj, ERRTEXT that of ErrText, MEMORY that of MemoryMap and BLOCK(x) the
\* text block {"type": "text", "text": x}.
Parsed(doc) == [ok |-> TRUE, doc |-> doc]
Unparseable == [ok |-> FALSE, doc |-> JNull]

json_loads(text) ==
    CASE text = "42" -> Parsed(JNum(42))
      [] text = "{\"id\": 1}" -> Parsed(JMap([id |-> JNum(1)]))
      [] text = "{\"result\": 42}" -> Parsed(JMap([result |-> JNum(42)]))
      [] text = "{\"result\": null}" -> Parsed(JMap([result |-> JNull]))
      [] text = "{\"result\": {}}" -> Parsed(JMap([result |-> JMap(<<>>)]))
      [] text = "{\"error\": ERROBJ}" -> Parsed(JMap([error |-> ErrObj]))
      [] text = "{\"error\": ERRTEXT}" -> Parsed(JMap([error |-> ErrText]))
      [] text = "{\"result\": 42, \"error\": ERROBJ}" ->
            Parsed(JMap([result |-> JNum(42), error |-> ErrObj]))
      [] text = "{\"result\": MEMORY}" ->
            Parsed(JMap([result |-> MemoryMap]))
      [] text = "{\"result\": {\"content\": []}}" ->
            Parsed(JMap([result |-> Content(<<>>)]))
      [] text = "{\"result\": {\"content\": [{\"type\": \"text\"}]}}" ->
            Parsed(JMap([result |-> Content(<<JMap([type |-> JStr("text")])>>)]))
      [] text = "{\"result\": {\"content\": [\"raw\"]}}" ->
            Parsed(JMap([result |-> Content(<<JStr("raw")>>)]))
      [] text = "{\"result\": {\"content\": [BLOCK(MEMORY)]}}" ->
            Parsed(JMap([result |-> Content(<<Block(JStr(MemoryText))>>)]))
      [] text = "{\"result\": {\"content\": [BLOCK(not json)]}}" ->
            Parsed(JMap([result |-> Content(<<Block(JStr("not json"))>>)]))
      [] text = "{\"result\": {\"content\": [BLOCK(null)]}}" ->
            Parsed(JMap([result |-> Content(<<Block(JNull)>>)]))
      [] text = MemoryText -> Parsed(MemoryMap)
      [] OTHER -> Unparseable

\* A response body is its text, cut at "\n" as body.split("\n") cuts it; a
\* line is its first characters (the part startswith("data: ") tests) and
\* the rest (line[6:] of a data line).
Line(prefix, rest) == [prefix |-> prefix, rest |-> rest]
Blank == Line("", "")
Data(text) == Line("data: ", text)
JsonBody(text) == <<Line("", text)>>

JsonTexts ==
    { "42", "{\"id\": 1}", "not json",
      "{\"result\": 42}", "{\"result\": null}", "{\"result\": {}}",
      "{\"error\": ERROBJ}", "{\"error\": ERRTEXT}",
      "{\"result\": 42, \"error\": ERROBJ}",
      "{\"result\": MEMORY}",
      "{\"result\": {\"content\": []}}",
      "{\"result\": {\"content\": [{\"type\": \"text\"}]}}",
      "{\"result\": {\"content\": [\"raw\"]}}",
      "{\"result\": {\"content\": [BLOCK(MEMORY)]}}",
      "{\"result\": {\"content\": [BLOCK(not json)]}}",
      "{\"result\": {\"content\": [BLOCK(null)]}}" }

SseBodies ==
    { <<Data("{\"result\": 42}"), Blank, Blank>>,
      <<Line("event: ", "message"), Data("{\"error\": ERROBJ}"), Blank>>,
      <<Data("{\"result\": 42, \"error\": ERROBJ}"), Blank>>,
      <<Data("{\"id\": 1}"), Data("{\"result\": {\"content\": [BLOCK(MEMORY)]}}")>>,
      <<Data("not json")>>,
      <<Blank>> }

Bodies == {JsonBody(text) : text \in JsonTexts} \cup SseBodies

\* The bodies tried under each content type: every body as JSON, the SSE
\* bodies and two JSON texts as an event stream, one body as plain text.
BodiesFor(ctype) ==
    CASE ctype = "application/json" -> Bodies
      [] ctype = "text/event-stream" ->
            SseBodies \cup {JsonBody("{\"result\": 42}"), JsonBody("not json")}
      [] OTHER -> {JsonBody("{\"result\": 42}")}

(***************************************************************************)
(* The client.  An operation of the code is a function from the state at   *)
(* one wait to the state at the next; s is the record of the variables.    *)
(***************************************************************************)
Cur ==
    [request_id |-> request_id, mcp_session_id |-> mcp_session_id,
     initialized |-> initialized, session |-> session, pc |-> pc, op |-> op,
     cur |-> cur, res |-> res, sent |-> sent, fin |-> fin,
     prev_hdr |-> prev_hdr, known_sid |-> known_sid, id_floor |-> id_floor,
     mark |-> mark, app |-> app]

Becomes(s) ==
    /\ request_id' = s.request_id
    /\ mcp_session_id' = s.mcp_session_id
    /\ initialized' = s.initialized
    /\ session' = s.session
    /\ pc' = s.pc
    /\ op' = s.op
    /\ cur' = s.cur
    /\ res' = s.res
    /\ sent' = s.sent
    /\ fin' = s.fin
    /\ prev_hdr' = s.prev_hdr
    /\ known_sid' = s.known_sid
    /\ id_floor' = s.id_floor
    /\ mark' = s.mark
    /\ app' = s.app
    /\ UNCHANGED job

\* `live` of a request in flight: the HTTP session it was handed to has not
\* been closed.  `task` and `len` of a finished request: the task that
\* awaited it and the requests sent before the task went on.
NoRequest == [method |-> "", notif |-> FALSE, ctype |-> "", hdr |-> None,
              live |-> TRUE]
NoFin == [method |-> "", hdr |-> None, ctype |-> "", body |-> <<>>,
          out |-> NoOutcome, task |-> "", len |-> 0]
NoMark == [len |-> 0, ready |-> FALSE, request_id |-> 0, tool |-> "",
           session |-> "none", sid |-> None, cut |-> FALSE]

\* No function is being applied.
NoJob == [fn |-> "", arg |-> JNull, out |-> NoOutcome]

\* __init__
NewClient ==
    /\ request_id = 0
    /\ mcp_session_id = None
    /\ initialized = FALSE
    /\ session = "none"
    /\ pc = [t \in Tasks |-> "idle"]
    /\ op = [t \in Tasks |-> "none"]
    /\ cur = [t \in Tasks |-> NoRequest]
    /\ res = [t \in Tasks |-> NoOutcome]
    /\ sent = <<>>
    /\ fin = NoFin
    /\ prev_hdr = None
    /\ known_sid = None
    /\ id_floor = 0
    /\ mark = [t \in Tasks |-> NoMark]
    /\ app = [t \in Tasks |-> [name |-> "", at |-> ""]]

Init == NewClient /\ job = NoJob

\* _next_id that loses the increment while another request waits for its
\* response (the counter read before the wait, written after it).
next_id_stale(s) ==
    IF \E u \in Tasks : s.pc[u] = "post" THEN s
    ELSE [s EXCEPT !.request_id = s.request_id + 1]

\* _next_id: the state after the increment; the id returned is its counter.
next_id(s) == [s EXCEPT !.request_id = s.request_id + 1]

\* _get_session without the test of session.closed: a closed session is
\* kept.
get_session_keep_closed(s) ==
    IF s.session = "none"
    THEN [s EXCEPT !.session = "open"]
    ELSE s

\* _get_session
get_session(s) ==
    IF s.session = "none" \/ s.session = "closed"
    THEN [s EXCEPT !.session = "open"]
    ELSE s

\* Payload with the id also put in a notification's envelope.
Payload_id_always(method, params, is_notification, id) ==
    [jsonrpc |-> "2.0", method |-> method, id |-> id]
        @@ (IF params.k # "null" THEN [params |-> params] ELSE <<>>)

\* The JSON-RPC envelope of _mcp_request.
Payload(method, params, is_notification, id) ==
    [jsonrpc |-> "2.0", method |-> method]
        @@ (IF ~is_notification THEN [id |-> id] ELSE <<>>)
        @@ (IF params.k # "null" THEN [params |-> params] ELSE <<>>)

\* Headers without the session header.
Headers_no_session(sid) ==
    ("Content-Type" :> "application/json")
        @@ ("Accept" :> "application/json, text/event-stream")

\* The request headers of _mcp_request.
Headers(sid) ==
    ("Content-Type" :> "application/json")
        @@ ("Accept" :> "application/json, text/event-stream")
        @@ (IF TruthyStr(sid) THEN ("Mcp-Session-Id" :> sid) ELSE <<>>)

\* _mcp_request up to its wait on session.post: task t hands the request to
\* the HTTP session.  The entry of `sent` also keeps what the client had
\* received and the operation that sends.
mcp_request_post(s, t, method, params, is_notification) ==
    LET s1 == get_session(s)
        s2 == IF ~is_notification THEN next_id(s1) ELSE s1
        entry == [payload |-> Payload(method, params, is_notification,
                                      s2.request_id),
                  headers |-> Headers(s2.mcp_session_id),
                  task |-> t, op |-> s2.op[t], mark |-> s2.mark[t],
                  ready |-> s2.initialized,
                  prev_hdr |-> s2.prev_hdr, known_sid |-> s2.known_sid,
                  id_floor |-> s2.id_floor]
    IN  [s2 EXCEPT !.sent = Append(@, entry),
                   !.pc[t] = "post",
                   !.cur[t] = [NoRequest EXCEPT !.method = method,
                                                !.notif = is_notification]]

\* str(x) inside the f-string of the raised exception: a str stands as it
\* is, None reads "None", a dict reads as its repr.
py_str(x) ==
    CASE x.k = "str" -> x.v
      [] x.k = "null" -> "None"
      [] x.k = "map" /\ x = ErrObj -> "{'code': -32000, 'message': 'boom'}"
      [] OTHER -> "<repr>"

\* The lines "if 'result' in data ... if 'error' in data" shared by the two
\* decoding branches: what they decide for one decoded document, "neither"
\* when the document has none of the two keys.  `in` on a number raises.
extract(data) ==
    IF data.k # "map" THEN Raise("TypeError", "not iterable")
    ELSE IF "result" \in DOMAIN data.v THEN Return(data.v.result)
    ELSE IF "error" \in DOMAIN data.v
         THEN Raise("Exception", "MCP error: " \o py_str(data.v.error))
    ELSE [kind |-> "neither", val |-> data]

\* The SSE branch deciding on the first data line whatever its keys: a
\* document with neither key ends the scan with None.
sse_scan_first_data(lines) ==
    LET at == {i \in 1..Len(lines) : lines[i].prefix = "data: "} IN
    IF at = {} THEN Return(JNull)
    ELSE LET line == lines[CHOOSE i \in at : \A j \in at : i <= j]
             data == json_loads(line.rest)
         IN  IF ~data.ok THEN Raise("JSONDecodeError", line.rest)
             ELSE IF extract(data.doc).kind = "neither" THEN Return(JNull)
             ELSE extract(data.doc)

\* The SSE branch of _mcp_request: the loop over body.split("\n").
RECURSIVE sse_scan(_)
sse_scan(lines) ==
    IF Len(lines) = 0 THEN Return(JNull)
    ELSE LET line == Head(lines) IN
         IF line.prefix = "data: "
         THEN LET data == json_loads(line.rest) IN
              IF ~data.ok THEN Raise("JSONDecodeError", line.rest)
              ELSE IF extract(data.doc).kind = "neither"
                   THEN sse_scan(Tail(lines))
                   ELSE extract(data.doc)
         ELSE sse_scan(Tail(lines))

\* resp.json(): aiohttp refuses another content type than application/json,
\* then parses the whole text as one JSON document.
resp_json(ctype, body) ==
    LET text == SelectSeq(body, LAMBDA l : l # Blank) IN
    IF ctype # "application/json" THEN Raise("ContentTypeError", ctype)
    ELSE IF Len(text) = 1 /\ text[1].prefix = "" /\ json_loads(text[1].rest).ok
         THEN Return(json_loads(text[1].rest).doc)
         ELSE Raise("JSONDecodeError", "body")

\* _mcp_request from `content_type = ...` on: the decoding of the body.
mcp_request_decode(ctype, body) ==
    IF ctype = "text/event-stream" THEN sse_scan(body)
    ELSE LET data == resp_json(ctype, body) IN
         IF data.kind = "raise" THEN data
         ELSE IF extract(data.val).kind = "neither" THEN Return(data.val)
         ELSE extract(data.val)

\* The greatest id among the requests sent.
RECURSIVE MaxId(_)
MaxId(q) ==
    IF Len(q) = 0 THEN 0
    ELSE LET e == q[Len(q)].payload
             m == MaxId(SubSeq(q, 1, Len(q) - 1))
         IN  IF "id" \in DOMAIN e /\ e.id > m THEN e.id ELSE m

\* A public operation of task t starts.
begin(s, t, name, tool) ==
    [s EXCEPT !.op[t] = name, !.res[t] = NoOutcome, !.fin = NoFin,
              !.mark[t] = [len |-> Len(s.sent), ready |-> s.initialized,
                           request_id |-> s.request_id, tool |-> tool,
                           session |-> s.session,
                           sid |-> s.mcp_session_id, cut |-> FALSE]]

\* dict.get(key, default) on a decoded JSON object.
get(data, key, default) ==
    IF key \in DOMAIN data.v THEN data.v[key] ELSE default

\* The timestamps of the model: datetime.now().isoformat(), a UTC time
\* ending in "Z", a local time, and a text that is no ISO 8601 time.
Now == "2026-01-01T12:00:00"
ZuluTime == "2024-01-01T00:00:00Z"
LocalTime == "2024-01-01T00:00:00"

\* text.replace("Z", "+00:00") on the timestamps of the model.
replace_Z(text) ==
    IF text = ZuluTime THEN "2024-01-01T00:00:00+00:00" ELSE text

\* A datetime, and datetime.fromisoformat: [ok, val], ok = FALSE standing
\* for ValueError.
DateTime(iso) == [dt |-> iso]
fromisoformat(text) ==
    IF text \in {Now, LocalTime, "2024-01-01T00:00:00+00:00"}
    THEN [ok |-> TRUE, val |-> DateTime(text)]
    ELSE [ok |-> FALSE, val |-> DateTime("")]

\* Memory.from_dict
Memory_from_dict(data) ==
    IF data.k # "map" THEN Raise("AttributeError", "get")
    ELSE LET ts == get(data, "timestamp", get(data, "createdAt", JStr(Now)))
             made(t) ==
                 [class |-> "Memory",
                  id |-> get(data, "_id",
                             get(data, "id", get(data, "memoryId", JStr("")))),
                  content |-> get(data, "content",
                                  get(data, "text", JStr(""))),
                  salience |-> get(data, "salience",
                                   get(data, "salience_score",
                                       get(data, "salienceScore", JNum(50)))),
                  timestamp |-> t,
                  entity |-> get(data, "entity", JNull),
                  context |-> get(data, "context", JMap(<<>>))]
         IN  IF ts.k = "str"
             THEN IF fromisoformat(replace_Z(ts.v)).ok
                  THEN Return(made(fromisoformat(replace_Z(ts.v)).val))
                  ELSE Raise("ValueError", "Invalid isoformat string")
             ELSE Return(made(ts))

\* Briefing.from_dict
Briefing_from_dict(data) ==
    LET first == get(data, "last_interaction", JNull)
        li == IF Truthy(first) THEN first
              ELSE get(data, "lastInteraction", JNull)
        made(t) ==
            [class |-> "Briefing",
             person |-> get(data, "person", JStr("")),
             last_interaction |-> t,
             you_owe_them |-> get(data, "you_owe_them",
                                  get(data, "youOweThem", JList(<<>>))),
             they_owe_you |-> get(data, "they_owe_you",
                                  get(data, "theyOweYou", JList(<<>>))),
             recent_topics |-> get(data, "recent_topics",
                                   get(data, "recentTopics", JList(<<>>))),
             sensitivities |-> get(data, "sensitivities", JList(<<>>)),
             upcoming_events |-> get(data, "upcoming_events",
                                     get(data, "upcomingEvents", JList(<<>>)))]
    IN  IF ~Truthy(li) THEN Return(made(JNull))
        ELSE IF li.k # "str" THEN Raise("AttributeError", "replace")
        ELSE IF fromisoformat(replace_Z(li.v)).ok
             THEN Return(made(fromisoformat(replace_Z(li.v)).val))
             ELSE Raise("ValueError", "Invalid isoformat string")

\* [Memory.from_dict(m) for m in q]: the list of the records, or the first
\* exception raised.
from_dict_each(q) ==
    LET outs == [i \in 1..Len(q) |-> Memory_from_dict(q[i])]
        bad == {i \in 1..Len(q) : outs[i].kind = "raise"}
    IN  IF bad = {} THEN Return([i \in 1..Len(q) |-> outs[i].val])
        ELSE outs[CHOOSE i \in bad : \A j \in bad : i <= j]

\* recall, from the result of _call_tool on.
recall_result(result) ==
    IF result.k = "list" THEN from_dict_each(result.v)
    ELSE IF result.k = "map" /\ "memories" \in DOMAIN result.v
         THEN LET m == result.v.memories IN
              IF m.k = "list" THEN from_dict_each(m.v)
              ELSE IF m.k \in {"str", "map"}
                   THEN IF Truthy(m) THEN Raise("AttributeError", "get")
                        ELSE Return(<<>>)
              ELSE Raise("TypeError", "not iterable")
    ELSE Return(<<>>)

\* get_briefing, from the result of _call_tool on.
get_briefing_result(result) ==
    IF result.k = "map" /\ Truthy(get(result, "person", JNull))
    THEN Briefing_from_dict(result)
    ELSE Return(JNull)

\* _call_tool: the tools/call request.
call_tool_request(s, t) ==
    mcp_request_post(s, t, "tools/call",
                     JMap([name |-> JStr(s.mark[t].tool),
                           arguments |-> JMap(<<>>)]), FALSE)

\* connect: the initialize request.
connect_begin(s, t) ==
    mcp_request_post(s, t, "initialize",
                     JMap([protocolVersion |-> JStr("2025-03-26")]), FALSE)

\* _call_tool without the lazy connect.
call_tool_begin_no_connect(s, t) == call_tool_request(s, t)

\* _call_tool: the lazy connect, then the request.
call_tool_begin(s, t) ==
    IF ~s.initialized THEN connect_begin(s, t) ELSE call_tool_request(s, t)

\* health_check up to its wait on session.get.
health_check_begin(s, t) ==
    [get_session(s) EXCEPT !.pc[t] = "probe",
                           !.cur[t] = [NoRequest EXCEPT
                                          !.method = "GET /health"]]

\* The entry points for the robot, and the result of one when the service
\* is not there.
EntryPoints == {"on_startup", "on_person_recognized", "on_conversation_end"}
NoApp == [name |-> "", at |-> ""]

\* An entry point of task t ends with outcome out.
leave(s, t, out) ==
    [s EXCEPT !.pc[t] = "idle", !.res[t] = out, !.cur[t] = NoRequest,
              !.op[t] = s.app[t].name, !.app[t] = NoApp]

\* The call of a client method inside an entry point.
call(s, t, at, name, tool) ==
    begin([s EXCEPT !.app[t].at = at], t, name, tool)

\* on_startup after each of its awaits.
on_startup_resume(s, t, out) ==
    CASE s.app[t].at = "health_check" ->
            IF out.val.v
            THEN connect_begin(call(s, t, "connect", "connect", ""), t)
            ELSE leave(s, t, Return(JMap(<<>>)))
      [] s.app[t].at = "connect" ->
            call_tool_begin(call(s, t, "set_context", "call_tool",
                                 "set_context"), t)
      [] s.app[t].at = "set_context" ->
            IF out.kind = "raise" THEN leave(s, t, out)
            ELSE call_tool_begin(call(s, t, "whats_relevant", "call_tool",
                                      "whats_relevant"), t)
      [] s.app[t].at = "whats_relevant" ->
            IF out.kind = "raise" THEN leave(s, t, out)
            ELSE leave(s, t, Return(IF out.val.k = "map" THEN out.val
                                    ELSE JMap(<<>>)))

\* on_person_recognized after get_briefing's tool call.
on_person_recognized_resume(s, t, out) ==
    IF out.kind = "raise" THEN leave(s, t, out)
    ELSE leave(s, t, get_briefing_result(out.val))

\* on_conversation_end after store's tool call.
on_conversation_end_resume(s, t, out) ==
    IF out.kind = "raise" THEN leave(s, t, out)
    ELSE leave(s, t, Return(IF out.val.k = "map"
                            THEN get(out.val, "memoryId", JNull)
                            ELSE JNull))

\* The entry point of task t gets the outcome of the client method it
\* awaited.
resume(s, t, out) ==
    CASE s.app[t].name = "on_startup" -> on_startup_resume(s, t, out)
      [] s.app[t].name = "on_person_recognized" ->
            on_person_recognized_resume(s, t, out)
      [] s.app[t].name = "on_conversation_end" ->
            on_conversation_end_resume(s, t, out)

\* A public operation of task t ends with outcome out: back to the caller,
\* which is an entry point when one is running.
finish(s, t, out) ==
    IF s.app[t].name = ""
    THEN [s EXCEPT !.pc[t] = "idle", !.res[t] = out, !.cur[t] = NoRequest]
    ELSE resume(s, t, out)

\* The unwrapping without the except clause around json.loads.
unwrap_no_except(result) ==
    IF Truthy(result) /\ result.k = "map"
    THEN LET content == IF "content" \in DOMAIN result.v
                        THEN result.v.content ELSE JList(<<>>)
         IN  IF content.k = "list" /\ Len(content.v) > 0
             THEN LET first == content.v[1] IN
                  IF first.k # "map" THEN Raise("AttributeError", "get")
                  ELSE LET text == IF "text" \in DOMAIN first.v
                                   THEN first.v.text ELSE JStr("")
                       IN  IF text.k # "str"
                           THEN Raise("TypeError", "loads")
                           ELSE IF json_loads(text.v).ok
                           THEN Return(json_loads(text.v).doc)
                           ELSE Raise("JSONDecodeError", text.v)
             ELSE Return(result)
    ELSE Return(result)

\* _call_tool, the unwrapping of the content block (after the request).
unwrap(result) ==
    IF Truthy(result) /\ result.k = "map"
    THEN LET content == IF "content" \in DOMAIN result.v
                        THEN result.v.content ELSE JList(<<>>)
         IN  IF content.k = "list" /\ Len(content.v) > 0
             THEN LET first == content.v[1] IN
                  IF first.k # "map" THEN Raise("AttributeError", "get")
                  ELSE LET text == IF "text" \in DOMAIN first.v
                                   THEN first.v.text ELSE JStr("")
                       IN  IF text.k = "str" /\ json_loads(text.v).ok
                           THEN Return(json_loads(text.v).doc)
                           ELSE Return(text)
             ELSE Return(result)
    ELSE Return(result)

\* _call_tool that swallows the exception of its request and returns None.
call_tool_done_swallow(s, t, out) ==
    IF out.kind = "raise" THEN finish(s, t, Return(JNull))
    ELSE finish(s, t, unwrap(out.val))

\* _call_tool after its request: an exception propagates, a result is
\* unwrapped.
call_tool_done(s, t, out) ==
    IF out.kind = "raise" THEN finish(s, t, out)
    ELSE finish(s, t, unwrap(out.val))

\* connect returns ok: to its caller, or into the _call_tool that called it.
connect_return(s, t, ok) ==
    IF s.op[t] = "call_tool" THEN call_tool_request(s, t)
    ELSE finish(s, t, Return(JBool(ok)))

\* connect without its try/except: the exception of the request propagates.
connect_initialized_no_except(s, t, out) ==
    IF out.kind = "return"
    THEN mcp_request_post([s EXCEPT !.initialized = TRUE], t,
                          "notifications/initialized", JNull, TRUE)
    ELSE finish(s, t, out)

\* connect that sets the flag and returns without the notification.
connect_initialized_no_notification(s, t, out) ==
    IF out.kind = "return"
    THEN connect_return([s EXCEPT !.initialized = TRUE], t, TRUE)
    ELSE connect_return(s, t, FALSE)

\* connect after the initialize request: on a result, the flag and the
\* notification; on an exception, the except clause.
connect_initialized(s, t, out) ==
    IF out.kind = "return"
    THEN mcp_request_post([s EXCEPT !.initialized = TRUE], t,
                          "notifications/initialized", JNull, TRUE)
    ELSE connect_return(s, t, FALSE)

\* connect after the notification: return True, or the except clause.
connect_notified(s, t, out) ==
    connect_return(s, t, out.kind = "return")

\* close() that also resets the request-id counter.
close_finish_reset_ids(s, t) ==
    finish([s EXCEPT !.initialized = FALSE, !.mcp_session_id = None,
                     !.request_id = 0],
           t, Return(JNull))

\* close() after its wait on the HTTP session's close.
close_finish(s, t) ==
    finish([s EXCEPT !.initialized = FALSE, !.mcp_session_id = None],
           t, Return(JNull))

\* close() up to that wait (no wait when there is no open HTTP session).
\* Closing the HTTP session cuts the connections of the requests in flight.
close_begin(s, t) ==
    LET s1 == [s EXCEPT !.prev_hdr = None, !.known_sid = None,
                        !.id_floor = MaxId(s.sent)]
        inflight == {u \in Tasks : s.pc[u] \in {"post", "body", "probe"}}
    IN  IF s1.session = "open"
        THEN [s1 EXCEPT !.session = "closed", !.pc[t] = "closing",
                        !.cur = [u \in Tasks |->
                                    IF u \in inflight
                                    THEN [s.cur[u] EXCEPT !.live = FALSE]
                                    ELSE s.cur[u]],
                        !.mark = [u \in Tasks |->
                                     IF u \in inflight
                                     THEN [s1.mark[u] EXCEPT !.cut = TRUE]
                                     ELSE s1.mark[u]]]
        ELSE close_finish(s1, t)

\* health_check that takes every status below 400 for a live service
\* (resp.ok instead of resp.status == 200).
health_check_answer_ok(s, t, status) ==
    finish([s EXCEPT !.fin = [NoFin EXCEPT !.method = "GET /health",
                                           !.out = Return(JNum(status))]],
           t, Return(JBool(status < 400)))

\* health_check when the health endpoint answers: resp.status == 200.
health_check_answer(s, t, status) ==
    finish([s EXCEPT !.fin = [NoFin EXCEPT !.method = "GET /health",
                                           !.out = Return(JNum(status))]],
           t, Return(JBool(status = 200)))

\* health_check when session.get raises (no connection, or the 5 s timeout
\* expired): the except clause.
health_check_except(s, t, exc) ==
    finish([s EXCEPT !.fin = [NoFin EXCEPT !.method = "GET /health",
                                           !.out = Raise(exc, "get")]],
           t, Return(JBool(FALSE)))

\* The request of task t ended with outcome out: the code that awaited it
\* goes on.
request_done(s, t, body, out) ==
    LET r == s.cur[t]
        s1 == [s EXCEPT !.fin = [method |-> r.method, hdr |-> r.hdr,
                                 ctype |-> r.ctype, body |-> body,
                                 out |-> out, task |-> t,
                                 len |-> Len(s.sent)]]
    IN  CASE r.method = "initialize" -> connect_initialized(s1, t, out)
          [] r.method = "notifications/initialized" ->
                connect_notified(s1, t, out)
          [] r.method = "tools/call" -> call_tool_done(s1, t, out)

\* The session id stored after the early return, so only on the path that
\* goes on to read the body.
mcp_request_response_late(s, t, status, sid, ctype) ==
    LET s2 == [s EXCEPT !.cur[t].hdr = sid, !.cur[t].ctype = ctype,
                        !.fin = NoFin, !.prev_hdr = sid,
                        !.known_sid = IF sid # None THEN sid ELSE @]
    IN  IF s.cur[t].notif \/ status = 202 \/ status = 204
        THEN request_done(s2, t, <<>>, Return(JNull))
        ELSE [s2 EXCEPT !.pc[t] = "body",
                        !.mcp_session_id = IF TruthyStr(sid) THEN sid ELSE @]

\* _mcp_request when session.post answers: the session id, then the early
\* return of a notification and of a 202 or 204.
mcp_request_response(s, t, status, sid, ctype) ==
    LET s1 == IF TruthyStr(sid) THEN [s EXCEPT !.mcp_session_id = sid] ELSE s
        s2 == [s1 EXCEPT !.cur[t].hdr = sid, !.cur[t].ctype = ctype,
                         !.fin = NoFin,
                         !.prev_hdr = sid,
                         !.known_sid = IF sid # None THEN sid ELSE @]
    IN  IF s.cur[t].notif \/ status = 202 \/ status = 204
        THEN request_done(s2, t, <<>>, Return(JNull))
        ELSE [s2 EXCEPT !.pc[t] = "body"]

(***************************************************************************)
(* Actions.                                                                *)
(***************************************************************************)
\* await client.connect()
Connect(t) ==
    /\ pc[t] = "idle"
    /\ Len(sent) + 2 <= MaxSent
    /\ Becomes(connect_begin(begin(Cur, t, "connect", ""), t))

\* await client._call_tool(name, arguments)
CallTool(t, name) ==
    /\ pc[t] = "idle"
    /\ Len(sent) + (IF initialized THEN 1 ELSE 3) <= MaxSent
    /\ Becomes(call_tool_begin(begin(Cur, t, "call_tool", name), t))

\* await client.close()
Close(t) ==
    /\ pc[t] = "idle"
    /\ Becomes(close_begin(begin(Cur, t, "close", ""), t))

\* The HTTP session finished closing.
CloseDone(t) ==
    /\ pc[t] = "closing"
    /\ Becomes(close_finish(Cur, t))

\* session.post raises: no response (aiohttp.ClientError).
PostFails(t) ==
    /\ pc[t] = "post"
    /\ Becomes(request_done([Cur EXCEPT !.prev_hdr = None, !.fin = NoFin],
                            t, <<>>, Raise("ClientError", "post")))

\* The response's status and headers arrive, on a connection that has not
\* been cut.
Response(t, status, sid, ctype) ==
    /\ pc[t] = "post"
    /\ cur[t].live
    /\ Becomes(mcp_request_response(Cur, t, status, sid, ctype))

\* The body arrives and is decoded.
Body(t, body) ==
    /\ pc[t] = "body"
    /\ cur[t].live
    /\ Becomes(request_done(Cur, t, body,
                            mcp_request_decode(cur[t].ctype, body)))

\* The transfer of the body fails (aiohttp.ClientPayloadError).
BodyFails(t) ==
    /\ pc[t] = "body"
    /\ Becomes(request_done(Cur, t, <<>>, Raise("ClientError", "body")))

\* await client.health_check()
HealthCheck(t) ==
    /\ pc[t] = "idle"
    /\ Becomes(health_check_begin(begin(Cur, t, "health_check", ""), t))

\* The health endpoint answers.
ProbeAnswer(t, status) ==
    /\ pc[t] = "probe"
    /\ cur[t].live
    /\ Becomes(health_check_answer(Cur, t, status))

\* session.get raises: the endpoint is unreachable (aiohttp.ClientError) or
\* the timeout expired (asyncio.TimeoutError).
ProbeFails(t, exc) ==
    /\ pc[t] = "probe"
    /\ Becomes(health_check_except(Cur, t, exc))

Step(t) ==
    \/ Connect(t)
    \/ \E name \in ToolNames : CallTool(t, name)
    \/ Close(t)
    \/ CloseDone(t)
    \/ PostFails(t)
    \/ \E status \in Statuses, sid \in SidHeaders, ctype \in ContentTypes :
          Response(t, status, sid, ctype)
    \/ \E body \in BodiesFor(cur[t].ctype) : Body(t, body)
    \/ BodyFails(t)

\* Single-flight use of the client: one task, one operation at a time.
Next == \E t \in SingleFlight : Step(t)

Spec == Init /\ [][Next]_vars

(***************************************************************************)
(* Single-flight use with the liveness probe, against a service that       *)
(* answers in JSON with or without a session id, or not at all.            *)
(***************************************************************************)
PlainStatuses == {200, 202}
PlainSids == {None, "s1"}
PlainBodies ==
    { JsonBody("{\"result\": 42}"),
      JsonBody("{\"error\": ERROBJ}"),
      JsonBody("{\"result\": {\"content\": [BLOCK(MEMORY)]}}") }

PlainStep(t) ==
    \/ Connect(t)
    \/ \E name \in ToolNames : CallTool(t, name)
    \/ Close(t)
    \/ CloseDone(t)
    \/ PostFails(t)
    \/ \E status \in PlainStatuses, sid \in PlainSids :
          Response(t, status, sid, "application/json")
    \/ \E body \in PlainBodies : Body(t, body)
    \/ BodyFails(t)

ProbeStep(t) ==
    \/ PlainStep(t)
    \/ HealthCheck(t)
    \/ \E status \in ProbeStatuses : ProbeAnswer(t, status)
    \/ \E exc \in {"ClientError", "TimeoutError"} : ProbeFails(t, exc)

ProbeNext == \E t \in SingleFlight : ProbeStep(t)

ProbeSpec == Init /\ [][ProbeNext]_vars

(***************************************************************************)
(* Several tasks share the client: a task runs until it waits on the       *)
(* network, then any task may run.  The server answers 200 with the        *)
(* session id "s1" and a result, or the request fails.                     *)
(***************************************************************************)
\* Requests sent before the last operation of a behaviour starts.
MaxBusy == 2

ConcStep(t) ==
    \/ Len(sent) < MaxBusy /\ Connect(t)
    \/ Len(sent) < MaxBusy /\ CallTool(t, "recall")
    \/ Close(t)
    \/ CloseDone(t)
    \/ PostFails(t)
    \/ Response(t, 200, "s1", "application/json")
    \/ Body(t, JsonBody("{\"result\": 42}"))
    \/ BodyFails(t)

ConcNext == \E t \in Tasks : ConcStep(t)

ConcSpec == Init /\ [][ConcNext]_vars

(***************************************************************************)
(* The entry points for the robot while the service is unreachable: every  *)
(* HTTP request fails.                                                     *)
(***************************************************************************)
\* await on_startup()
OnStartup(t) ==
    /\ pc[t] = "idle"
    /\ Becomes(health_check_begin(
           call([Cur EXCEPT !.app[t].name = "on_startup"],
                t, "health_check", "health_check", ""), t))

\* await on_person_recognized(name)
OnPersonRecognized(t) ==
    /\ pc[t] = "idle"
    /\ Len(sent) + (IF initialized THEN 1 ELSE 3) <= MaxSent
    /\ Becomes(call_tool_begin(
           call([Cur EXCEPT !.app[t].name = "on_person_recognized"],
                t, "get_briefing", "call_tool", "get_briefing"), t))

\* await on_conversation_end(person, summary)
OnConversationEnd(t) ==
    /\ pc[t] = "idle"
    /\ Len(sent) + (IF initialized THEN 1 ELSE 3) <= MaxSent
    /\ Becomes(call_tool_begin(
           call([Cur EXCEPT !.app[t].name = "on_conversation_end"],
                t, "store", "call_tool", "store_memory"), t))

DownStep(t) ==
    \/ OnStartup(t)
    \/ OnPersonRecognized(t)
    \/ OnConversationEnd(t)
    \/ Connect(t)
    \/ Close(t)
    \/ CloseDone(t)
    \/ PostFails(t)
    \/ \E exc \in {"ClientError", "TimeoutError"} : ProbeFails(t, exc)

DownNext == \E t \in SingleFlight : DownStep(t)

DownSpec == Init /\ [][DownNext]_vars

(***************************************************************************)
(* The functions of the module that turn a payload into a value, each      *)
(* applied to one input drawn from a bounded set.                          *)
(***************************************************************************)
\* Lines of an event stream body.
MaxLines == 3

\* The lines an event stream is made of: a blank line, an event line, a
\* line whose prefix lacks the space, and data lines with an object without
\* result and error, with a result, with an error, with both, with a number
\* and with a text that is not JSON.
SseLines ==
    { Blank,
      Line("event: ", "message"),
      Line("data:", "{\"result\": 42}"),
      Data("{\"id\": 1}"),
      Data("{\"result\": 42}"),
      Data("{\"error\": ERROBJ}"),
      Data("{\"result\": 42, \"error\": ERROBJ}"),
      Data("42"),
      Data("not json") }

\* body.split("\n") of the event stream bodies of up to MaxLines lines.
SseInputs == UNION {[1..n -> SseLines] : n \in 1..MaxLines}

\* One input is handed to the SSE branch of _mcp_request.
DecodeInit ==
    \E body \in SseInputs :
        job = [fn |-> "mcp_request_decode", arg |-> body, out |-> NoOutcome]

\* The SSE branch of _mcp_request decodes the body.
Decode ==
    /\ job.fn = "mcp_request_decode"
    /\ job.out.kind = "none"
    /\ job' = [job EXCEPT !.out = mcp_request_decode("text/event-stream",
                                                     job.arg)]
    /\ UNCHANGED client

\* Memories in one recall result.
MaxMemories == 2

\* The members a memory payload is put together from: a timestamp (absent,
\* UTC, local, no ISO time, a number of seconds), under either key; an id;
\* a content.
TimestampMember ==
    << <<>>, "timestamp" :> JStr(ZuluTime), "createdAt" :> JStr(LocalTime),
       "timestamp" :> JStr("yesterday"), "timestamp" :> JNum(1700000000) >>
IdMember == << <<>>, "id" :> JStr("m1") >>
ContentMember == << <<>>, "content" :> JStr("likes tea") >>

MemoryChoices ==
    (1..Len(TimestampMember)) \X (1..Len(IdMember)) \X (1..Len(ContentMember))
MemoryPayload(c) ==
    JMap(TimestampMember[c[1]] @@ IdMember[c[2]] @@ ContentMember[c[3]])

\* The members of a briefing payload: the person (absent, empty, named) and
\* the last interaction (absent, UTC, no ISO time, under the other key,
\* null with the other key set).
PersonMember == << <<>>, "person" :> JStr(""), "person" :> JStr("Ada") >>
LastMember ==
    << <<>>, "last_interaction" :> JStr(ZuluTime),
       "last_interaction" :> JStr("last week"),
       "lastInteraction" :> JStr(LocalTime),
       ("last_interaction" :> JNull) @@ ("lastInteraction" :> JStr(ZuluTime)) >>

BriefingChoices == (1..Len(PersonMember)) \X (1..Len(LastMember))
BriefingPayload(c) == JMap(PersonMember[c[1]] @@ LastMember[c[2]])

\* Results of _call_tool that are no payload of the tool.
OtherResults == <<JNull, JStr("no memories"), JMap(<<>>), JList(<<>>)>>

\* One result of _call_tool("recall") is handed to recall: a list of
\* memories, the same list under "memories", or another value.
RecallInit ==
    \/ \E n \in 1..MaxMemories : \E f \in [1..n -> MemoryChoices] :
       \E wrapped \in BOOLEAN :
          LET list == JList([i \in 1..n |-> MemoryPayload(f[i])]) IN
          job = [fn |-> "recall",
                 arg |-> IF wrapped THEN JMap([memories |-> list]) ELSE list,
                 out |-> NoOutcome]
    \/ \E i \in 1..Len(OtherResults) :
          job = [fn |-> "recall", arg |-> OtherResults[i], out |-> NoOutcome]

\* One result of _call_tool("get_briefing") is handed to get_briefing.
BriefingInit ==
    \/ \E c \in BriefingChoices :
          job = [fn |-> "get_briefing", arg |-> BriefingPayload(c),
                 out |-> NoOutcome]
    \/ \E i \in 1..Len(OtherResults) :
          job = [fn |-> "get_briefing", arg |-> OtherResults[i],
                 out |-> NoOutcome]

\* recall normalizes the result.
Recall ==
    /\ job.fn = "recall"
    /\ job.out.kind = "none"
    /\ job' = [job EXCEPT !.out = recall_result(job.arg)]
    /\ UNCHANGED client

\* get_briefing normalizes the result.
GetBriefing ==
    /\ job.fn = "get_briefing"
    /\ job.out.kind = "none"
    /\ job' = [job EXCEPT !.out = get_briefing_result(job.arg)]
    /\ UNCHANGED client

PureInit == NewClient /\ (DecodeInit \/ RecallInit \/ BriefingInit)

PureNext == Decode \/ Recall \/ GetBriefing

PureSpec == PureInit /\ [][PureNext]_vars

(***************************************************************************)
(* Reading the history.                                                    *)
(***************************************************************************)
Method(e) == e.payload.method
HasId(e) == "id" \in DOMAIN e.payload
IsNotification(e) == Method(e) = "notifications/initialized"
HasSid(e) == "Mcp-Session-Id" \in DOMAIN e.headers
SidOf(e) == e.headers["Mcp-Session-Id"]

\* The number of non-notification requests among the first n sent.
Requests(n) == Cardinality({i \in 1..n : ~IsNotification(sent[i])})

\* Task t is back from the public operation `name`.
Ended(t, name) == pc[t] = "idle" /\ op[t] = name

(***************************************************************************)
(* C1.  The ids of the request envelopes start at 1 and each request that  *)
(* is not a notification carries the id of the previous such request plus  *)
(* one; a notification carries no id and leaves the counter as it is, over *)
(* any sequence of connect, tool calls and close.                          *)
(***************************************************************************)
C1_IdsCountRequests ==
    /\ \A i \in 1..Len(sent) :
          IF IsNotification(sent[i])
          THEN ~HasId(sent[i])
          ELSE HasId(sent[i]) /\ sent[i].payload.id = Requests(i)
    /\ request_id = Requests(Len(sent))

\* A request, a notification, a close, and the next request with id 2.
C1_Witness ==
    /\ Len(sent) >= 3
    /\ HasId(sent[1]) /\ sent[1].payload.id = 1
    /\ IsNotification(sent[2])
    /\ HasId(sent[3]) /\ sent[3].payload.id = 2
    /\ sent[3].id_floor = 1

(***************************************************************************)
(* C2.  When the response to a request carries an Mcp-Session-Id header,   *)
(* the very next request of the client (no close() in between) carries     *)
(* that value in its Mcp-Session-Id header; and every request sent while   *)
(* a session id is known carries the id received last.                     *)
(***************************************************************************)
C2_SessionIdEchoed ==
    \A i \in 1..Len(sent) :
        /\ sent[i].prev_hdr # None =>
              HasSid(sent[i]) /\ SidOf(sent[i]) = sent[i].prev_hdr
        /\ sent[i].known_sid # None =>
              HasSid(sent[i]) /\ SidOf(sent[i]) = sent[i].known_sid

\* The server rotates the id (s1, then s2) and both are echoed; a later
\* response without the header leaves s2 in use.
C2_Witness ==
    \E i, j, k \in 1..Len(sent) :
        /\ i < j /\ j < k
        /\ sent[i].prev_hdr = "s1" /\ HasSid(sent[i]) /\ SidOf(sent[i]) = "s1"
        /\ sent[j].prev_hdr = "s2" /\ HasSid(sent[j]) /\ SidOf(sent[j]) = "s2"
        /\ sent[k].prev_hdr = None /\ sent[k].known_sid = "s2"
        /\ HasSid(sent[k])

(***************************************************************************)
(* C9.  When a response carries a session id header, the stored session id *)
(* equals the header's value once the request has finished, whatever its   *)
(* outcome: a result, None (a notification, a 202 or 204) or an exception  *)
(* for a remote error.                                                     *)
(***************************************************************************)
C9_SessionIdStored ==
    (fin.method # "" /\ fin.hdr # None) => mcp_session_id = fin.hdr

\* A response that carries a new id and a remote error: the id replaced the
\* one the request was sent with.
C9_Witness ==
    /\ fin.method = "tools/call"
    /\ fin.hdr = "s2"
    /\ fin.out.kind = "raise" /\ fin.out.val.type = "Exception"
    /\ HasSid(sent[Len(sent)]) /\ SidOf(sent[Len(sent)]) = "s1"
    /\ mcp_session_id = "s2"

(***************************************************************************)
(* C3.  When the decoded response document holds a result key and an       *)
(* error key, the codec fails with the error payload and does not return   *)
(* the result, in the plain-JSON branch and in the SSE branch.             *)
(***************************************************************************)
\* The response that finished was decoded from a document with both keys.
BothKeys ==
    \/ /\ fin.ctype = "application/json"
       /\ fin.body = JsonBody("{\"result\": 42, \"error\": ERROBJ}")
    \/ /\ fin.ctype = "text/event-stream"
       /\ fin.body = <<Data("{\"result\": 42, \"error\": ERROBJ}"), Blank>>

\* C3: a response document with both keys ends in the exception that carries
\* the error payload.
C3_ErrorTakesPrecedence ==
    BothKeys =>
        /\ fin.out.kind = "raise"
        /\ fin.out.val.type = "Exception"
        /\ fin.out.val.msg = "MCP error: {'code': -32000, 'message': 'boom'}"

(***************************************************************************)
(* C4.  For every tool name and argument map, callTool ends in exactly one *)
(* of two outcomes: it returns a normalized value, or it raises the remote *)
(* error that carries the server's error payload; never both, and never    *)
(* another outcome.                                                        *)
(***************************************************************************)
\* The response that finished was decoded from a document with an error
\* key and no result key.
ErrorOnly ==
    \/ /\ fin.ctype = "application/json"
       /\ fin.body \in {JsonBody("{\"error\": ERROBJ}"),
                        JsonBody("{\"error\": ERRTEXT}")}
    \/ /\ fin.ctype = "text/event-stream"
       /\ fin.body = <<Line("event: ", "message"),
                       Data("{\"error\": ERROBJ}"), Blank>>

\* The exception the code raises for a remote error: its message is the
\* text of the payload.
RemoteError ==
    [type |-> "Exception",
     msg |-> "MCP error: {'code': -32000, 'message': 'boom'}"]

\* C4 as stated: a finished callTool returned a value or raised the remote
\* error with the server's payload.
C4_ReturnsOrRemoteError ==
    \A t \in Tasks :
        Ended(t, "call_tool") =>
            \/ res[t].kind = "return"
            \/ res[t].kind = "raise" /\ res[t].val = RemoteError

\* C4 as amended: callTool returns a value or raises; a remote error object is
\* raised with the text of its payload, and every other exception of the
\* request (transport, decoding) reaches the caller as it was raised; the
\* only exception of callTool's own is that of the unwrapping.
C4_ReturnsOrRaises ==
    \A t \in Tasks :
        Ended(t, "call_tool") =>
            /\ res[t].kind \in {"return", "raise"}
            /\ fin.method = "tools/call"
            /\ ErrorOnly => res[t].kind = "raise" /\ res[t].val = RemoteError
            /\ fin.out.kind = "raise" =>
                  res[t].kind = "raise" /\ res[t].val = fin.out.val
            /\ res[t].kind = "raise" =>
                  \/ fin.out.kind = "raise"
                  \/ res[t].val.type = "AttributeError"
            /\ (res[t].kind = "raise" /\ res[t].val.type = "Exception") =>
                  ErrorOnly

\* A tool call on a Ready client was answered with an error object sent as
\* an SSE frame, and raised it.
C4_Witness ==
    \E t \in Tasks :
        /\ Ended(t, "call_tool")
        /\ mark[t].ready
        /\ fin.ctype = "text/event-stream" /\ ErrorOnly
        /\ res[t].kind = "raise" /\ res[t].val = RemoteError

(***************************************************************************)
(* C5.  connect is idempotent: called on a client that is Ready, it sends  *)
(* no request, leaves the request-id counter, the session id and the       *)
(* initialized flag as they are, and returns true.                         *)
(***************************************************************************)
C5_ConnectIdempotent ==
    /\ \A i \in 1..Len(sent) :
          ~(sent[i].op = "connect" /\ sent[i].mark.ready)
    /\ \A t \in Tasks :
          (Ended(t, "connect") /\ mark[t].ready) =>
              /\ request_id = mark[t].request_id
              /\ initialized
              /\ res[t].kind = "return" /\ res[t].val.v = TRUE

(***************************************************************************)
(* C6.  When a step of the initialization sequence fails (the initialize   *)
(* request or the initialized notification), the session is Disconnected   *)
(* (initialized = false) when connect returns.                             *)
(***************************************************************************)
C6_FailedConnectDisconnected ==
    \A t \in Tasks :
        (Ended(t, "connect") /\ fin.out.kind = "raise") => ~initialized

(***************************************************************************)
(* C7.  connect never propagates an exception: a failure of the initialize *)
(* request or of the notification (transport, unparseable body, remote     *)
(* error object) reaches the caller as the boolean false.                  *)
(***************************************************************************)
C7_ConnectReturnsBoolean ==
    \A t \in Tasks :
        Ended(t, "connect") =>
            /\ res[t].kind = "return"
            /\ res[t].val.k = "bool"
            /\ res[t].val.v = (fin.out.kind # "raise")

\* connect returned false after the server answered initialize with an
\* error object.
C7_Witness ==
    \E t \in Tasks :
        /\ Ended(t, "connect")
        /\ fin.method = "initialize"
        /\ fin.out.kind = "raise" /\ fin.out.val.type = "Exception"
        /\ res[t].kind = "return" /\ res[t].val.v = FALSE

(***************************************************************************)
(* C8.  A tool call on a client that is not Ready sends the initialize     *)
(* request before its tools/call request, the caller not having called     *)
(* connect; a tool call on a Ready client sends tools/call and no          *)
(* initialize.                                                             *)
(***************************************************************************)
C8_LazyConnect ==
    /\ \A i \in 1..Len(sent) :
          Method(sent[i]) = "tools/call" =>
              /\ sent[i].op = "call_tool"
              /\ IF sent[i].mark.ready
                 THEN i = sent[i].mark.len + 1
                 ELSE /\ i > sent[i].mark.len + 1
                      /\ Method(sent[sent[i].mark.len + 1]) = "initialize"
                      /\ sent[sent[i].mark.len + 1].op = "call_tool"
    /\ \A t \in Tasks :
          Ended(t, "call_tool") =>
              /\ Len(sent) > mark[t].len
              /\ Method(sent[Len(sent)]) = "tools/call"

\* A tool call on a fresh client (initialize, notification, tools/call) and
\* then one on the Ready client (tools/call alone).
C8_Witness ==
    /\ Len(sent) = 4
    /\ Method(sent[1]) = "initialize" /\ sent[1].op = "call_tool"
    /\ Method(sent[3]) = "tools/call" /\ ~sent[3].mark.ready
    /\ Method(sent[4]) = "tools/call" /\ sent[4].mark.ready

(***************************************************************************)
(* C10.  close() leaves the session Disconnected (initialized = false)     *)
(* with no session id and the request-id counter as it was, so every id    *)
(* issued after a close and reconnect is greater than every id issued      *)
(* before the close.                                                       *)
(***************************************************************************)
C10_CloseKeepsCounter ==
    /\ \A t \in Tasks :
          Ended(t, "close") =>
              /\ ~initialized
              /\ mcp_session_id = None
              /\ request_id = mark[t].request_id
    /\ \A i \in 1..Len(sent) :
          HasId(sent[i]) => sent[i].payload.id > sent[i].id_floor

\* A Ready client with a session id was closed, after an earlier close and
\* reconnect.
C10_Witness ==
    \E t \in Tasks :
        /\ Ended(t, "close")
        /\ mark[t].ready
        /\ known_sid = None /\ prev_hdr = None
        /\ \E i \in 1..Len(sent) :
              /\ HasId(sent[i]) /\ sent[i].id_floor > 0
              /\ HasSid(sent[Len(sent)])

(***************************************************************************)
(* C11.  After close(), the next operation that needs the network          *)
(* (connect, a tool call or the liveness probe) acquires a fresh HTTP      *)
(* session and proceeds: every request that waits on the network waits on  *)
(* an open HTTP session, an operation begun on a closed HTTP session has   *)
(* opened one, and the first request of a tool call begun on a closed HTTP *)
(* session is the initialize of the handshake.                             *)
(***************************************************************************)
NetworkOps == {"connect", "call_tool", "health_check"}

C11_UsableAfterClose ==
    /\ \A t \in Tasks :
          pc[t] \in {"post", "body", "probe"} => session = "open"
    /\ \A t \in Tasks :
          (op[t] \in NetworkOps /\ mark[t].session = "closed") =>
              session = "open"
    /\ \A i \in 1..Len(sent) :
          ( /\ sent[i].op = "call_tool"
            /\ sent[i].mark.session = "closed"
            /\ i = sent[i].mark.len + 1 ) =>
              Method(sent[i]) = "initialize"

\* A tool call begun on a closed HTTP session ran the handshake again and
\* returned what the server sent.
C11_Witness ==
    \E t \in Tasks :
        /\ Ended(t, "call_tool")
        /\ mark[t].session = "closed"
        /\ res[t].kind = "return"
        /\ Len(sent) = mark[t].len + 3
        /\ Method(sent[mark[t].len + 1]) = "initialize"
        /\ Method(sent[Len(sent)]) = "tools/call"

(***************************************************************************)
(* C14.  The liveness probe never raises: it returns true exactly when the *)
(* health endpoint answered with status 200, and false for any other       *)
(* status, for a transport failure and for a timeout; from its start to    *)
(* its return the initialized flag, the session id and the request-id      *)
(* counter are what they were and no MCP request is sent.                  *)
(***************************************************************************)
C14_ProbeIsBoolean ==
    \A t \in Tasks :
        /\ op[t] = "health_check" =>
              /\ initialized = mark[t].ready
              /\ mcp_session_id = mark[t].sid
              /\ request_id = mark[t].request_id
              /\ Len(sent) = mark[t].len
        /\ Ended(t, "health_check") =>
              /\ res[t].kind = "return"
              /\ res[t].val.k = "bool"
              /\ fin.method = "GET /health"
              /\ res[t].val.v = (fin.out.kind = "return" /\ fin.out.val.v = 200)

\* The probe of a Ready client that holds a session id returned true.
C14_Witness ==
    \E t \in Tasks :
        /\ Ended(t, "health_check")
        /\ res[t].kind = "return" /\ res[t].val.k = "bool" /\ res[t].val.v
        /\ mark[t].ready
        /\ mark[t].sid # None

\* The probe returned false on a timeout.
C14_WitnessTimeout ==
    \E t \in Tasks :
        /\ Ended(t, "health_check")
        /\ res[t].kind = "return" /\ res[t].val.k = "bool" /\ ~res[t].val.v
        /\ fin.out.kind = "raise" /\ fin.out.val.type = "TimeoutError"

(***************************************************************************)
(* Reading the result of a finished tools/call request.                    *)
(***************************************************************************)
\* Two decoded JSON values are the same value.
Same(a, b) == a.k = b.k /\ a = b

\* Task t is back from a tool call whose tools/call request returned a
\* result (fin.out.val).
GotToolResult(t) ==
    /\ Ended(t, "call_tool")
    /\ fin.method = "tools/call"
    /\ fin.out.kind = "return"

\* The result is a map that contains a non-empty content list.
HasContent(r) ==
    /\ r.k = "map"
    /\ "content" \in DOMAIN r.v
    /\ r.v.content.k = "list"
    /\ Len(r.v.content.v) > 0

\* The first content block of such a result carries a text.
HasText(r) ==
    /\ r.v.content.v[1].k = "map"
    /\ "text" \in DOMAIN r.v.content.v[1].v

(***************************************************************************)
(* C12.  callTool's decoding of the first content block's text never       *)
(* raises: when the text is valid JSON the decoded value is returned,      *)
(* otherwise the text itself is returned unchanged ("not json" yields      *)
(* "not json").                                                            *)
(***************************************************************************)
C12_DecodeNeverRaises ==
    \A t \in Tasks :
        (GotToolResult(t) /\ HasContent(fin.out.val) /\ HasText(fin.out.val)) =>
            LET text == fin.out.val.v.content.v[1].v.text IN
            /\ res[t].kind = "return"
            /\ IF text.k = "str" /\ json_loads(text.v).ok
               THEN Same(res[t].val, json_loads(text.v).doc)
               ELSE Same(res[t].val, text)

\* The text "not json" came back as the string "not json".
C12_Witness ==
    \E t \in Tasks :
        /\ GotToolResult(t)
        /\ HasContent(fin.out.val) /\ HasText(fin.out.val)
        /\ Same(fin.out.val.v.content.v[1].v.text, JStr("not json"))
        /\ res[t].kind = "return"
        /\ Same(res[t].val, JStr("not json"))

\* The text of a memory came back as the decoded map.
C12_WitnessDecoded ==
    \E t \in Tasks :
        /\ GotToolResult(t)
        /\ HasContent(fin.out.val) /\ HasText(fin.out.val)
        /\ res[t].kind = "return"
        /\ Same(res[t].val, MemoryMap)

(***************************************************************************)
(* C20.  When the tools/call result is not a map containing a non-empty    *)
(* content list, or the first content block yields no text, callTool       *)
(* returns the transport result unchanged.                                 *)
(***************************************************************************)
C20_ResultUnchanged ==
    \A t \in Tasks :
        ( /\ GotToolResult(t)
          /\ \/ ~HasContent(fin.out.val)
             \/ ~HasText(fin.out.val) ) =>
            /\ res[t].kind = "return"
            /\ Same(res[t].val, fin.out.val)

\* The part of C20 about results without a non-empty content list.
C20_NoContentUnchanged ==
    \A t \in Tasks :
        (GotToolResult(t) /\ ~HasContent(fin.out.val)) =>
            /\ res[t].kind = "return"
            /\ Same(res[t].val, fin.out.val)

(***************************************************************************)
(* Reading an event stream body.                                           *)
(***************************************************************************)
\* The JSON document of a data line.
DocOf(line) == json_loads(line.rest).doc

\* A data line whose JSON document has a result or an error key.
Qualifies(line) ==
    /\ line.prefix = "data: "
    /\ json_loads(line.rest).ok
    /\ DocOf(line).k = "map"
    /\ {"result", "error"} \cap DOMAIN DocOf(line).v # {}

\* A data line that holds no JSON object.
NoObject(line) ==
    /\ line.prefix = "data: "
    /\ ~(json_loads(line.rest).ok /\ DocOf(line).k = "map")

\* The first index of the body in the set at, 0 when the set is empty.
First(at) == IF at = {} THEN 0 ELSE CHOOSE i \in at : \A j \in at : i <= j

\* The outcome is the one the document decides: its result returned, or its
\* error raised.
DecidedBy(doc, out) ==
    \/ /\ "result" \in DOMAIN doc.v
       /\ out.kind = "return"
       /\ Same(out.val, doc.v.result)
    \/ /\ "error" \in DOMAIN doc.v
       /\ out.kind = "raise"
       /\ out.val.type = "Exception"

\* The SSE branch has decoded the body job.arg into the outcome job.out.
Decoded == job.fn = "mcp_request_decode" /\ job.out.kind # "none"

C19_WitnessExample ==
    /\ Decoded
    /\ job.arg = <<Data("{\"result\": 42}"), Blank, Blank>>
    /\ job.out.kind = "return"
    /\ Same(job.out.val, JNum(42))

(***************************************************************************)
(* Reading what recall and get_briefing return.                            *)
(***************************************************************************)
\* recall or get_briefing has normalized the result job.arg into job.out.
Normalized(fn) == job.fn = fn /\ job.out.kind # "none"

\* A fully constructed Memory: its timestamp is a datetime.
IsMemory(m) ==
    /\ "class" \in DOMAIN m /\ m.class = "Memory"
    /\ "dt" \in DOMAIN m.timestamp

\* A fully constructed Briefing: it names the person and its last
\* interaction is a datetime or None.
IsBriefing(b) ==
    /\ "class" \in DOMAIN b /\ b.class = "Briefing"
    /\ b.person.k = "str" /\ b.person.v # ""
    /\ \/ "dt" \in DOMAIN b.last_interaction
       \/ b.last_interaction.k = "null"

\* None.
IsNone(x) == "k" \in DOMAIN x /\ x.k = "null"

(***************************************************************************)
(* C15.  recall and get_briefing return only fully constructed records or  *)
(* the empty list / None: a payload that cannot be converted (a timestamp  *)
(* that does not parse, a briefing without a person) yields the empty or   *)
(* absent result, never an exception and never a partly filled record.     *)
(***************************************************************************)
C15_FailClosed ==
    /\ Normalized("recall") =>
          /\ job.out.kind = "return"
          /\ \A i \in 1..Len(job.out.val) : IsMemory(job.out.val[i])
    /\ Normalized("get_briefing") =>
          /\ job.out.kind = "return"
          /\ IsNone(job.out.val) \/ IsBriefing(job.out.val)

\* The part of C15 about a briefing without a person: None.
C15_NoPersonAbsent ==
    ( /\ Normalized("get_briefing")
      /\ \/ job.arg.k # "map"
         \/ ~Truthy(get(job.arg, "person", JNull)) ) =>
        job.out.kind = "return" /\ IsNone(job.out.val)

(***************************************************************************)
(* C13.  When the service is unreachable (every HTTP request fails), the   *)
(* entry points on_startup, on_person_recognized and on_conversation_end   *)
(* complete without raising.                                               *)
(***************************************************************************)
C13_EntryPointsDoNotRaise ==
    \A t \in Tasks :
        (pc[t] = "idle" /\ op[t] \in EntryPoints) => res[t].kind = "return"

\* The part of C13 about on_startup: it returns the empty map.
C13_StartupReturnsEmpty ==
    \A t \in Tasks :
        Ended(t, "on_startup") =>
            /\ res[t].kind = "return"
            /\ res[t].val.k = "map" /\ DOMAIN res[t].val.v = {}

(***************************************************************************)
(* C16.  After an initialize request succeeds, the next request the client *)
(* sends is the initialized notification of the same task: no tools/call   *)
(* or other request is sent between the initialize result and that         *)
(* notification, also when several tool calls are issued concurrently on   *)
(* the same client while it connects.                                      *)
(***************************************************************************)
C16_NotificationFollowsInitialize ==
    (fin.method = "initialize" /\ fin.out.kind = "return") =>
        /\ Len(sent) > fin.len
        /\ IsNotification(sent[fin.len + 1])
        /\ sent[fin.len + 1].task = fin.task

\* Two tool calls were issued while the client was connecting: the
\* initialize of the second went out before the first one's result, and the
\* first task answered its result with the notification.
C16_Witness ==
    /\ fin.method = "initialize" /\ fin.out.kind = "return"
    /\ fin.len >= 2
    /\ sent[fin.len].task # fin.task
    /\ \A t \in Tasks : op[t] = "call_tool" /\ ~mark[t].ready
    /\ IsNotification(sent[fin.len + 1])

(***************************************************************************)
(* C17.  When several tasks issue requests concurrently on the same client *)
(* no two requests are sent with the same id, and the ids are allocated in *)
(* the order in which the requests were invoked: along the order of        *)
(* sending, the ids grow.                                                  *)
(***************************************************************************)
C17_IdsUniqueInOrder ==
    \A i, j \in 1..Len(sent) :
        (i < j /\ HasId(sent[i]) /\ HasId(sent[j])) =>
            sent[i].payload.id < sent[j].payload.id

\* Two tasks wait for the responses of their requests at the same time.
C17_Witness ==
    /\ Len(sent) >= 2
    /\ \A t \in Tasks : pc[t] = "post" /\ ~cur[t].notif
    /\ sent[Len(sent)].task # sent[Len(sent) - 1].task
    /\ sent[Len(sent)].payload.id = sent[Len(sent) - 1].payload.id + 1

(***************************************************************************)
(* C18.  When close() runs while a request (also the initialize of a       *)
(* concurrent connect or of a lazy connect) is in flight, the request in   *)
(* flight fails and the shared state is not corrupted: once close() and    *)
(* the operation that was in flight have both finished, the session is     *)
(* Disconnected (initialized = false) and holds no session id.             *)
(***************************************************************************)
C18_CloseWinsOverInFlight ==
    \A a, b \in Tasks :
        ( /\ Ended(b, "close")
          /\ pc[a] = "idle" /\ op[a] \in {"connect", "call_tool"}
          /\ mark[a].cut ) =>
            /\ ~initialized
            /\ mcp_session_id = None

\* The part of C18 that holds: it holds for a connect() that was in flight.
C18_CloseWinsOverConnect ==
    \A a, b \in Tasks :
        (Ended(b, "close") /\ Ended(a, "connect") /\ mark[a].cut) =>
            /\ ~initialized
            /\ mcp_session_id = None

(***************************************************************************)
(* C21.  A tools/call request is sent only while the session is Ready      *)
(* (initialized = true when it is sent): when the lazy connect of a tool   *)
(* call fails, the tool call sends no tools/call request.                  *)
(***************************************************************************)
C21_ToolsCallOnlyWhenReady ==
    \A i \in 1..Len(sent) :
        Method(sent[i]) = "tools/call" => sent[i].ready

\* The part of C21 that holds: a tools/call sent while the session is not
\* Ready comes right after the initialize of the same tool call, which
\* failed.
C21_UnreadyOnlyAfterFailedConnect ==
    \A i \in 1..Len(sent) :
        (Method(sent[i]) = "tools/call" /\ ~sent[i].ready) =>
            /\ i = sent[i].mark.len + 2
            /\ Method(sent[i - 1]) = "initialize"
            /\ sent[i - 1].op = "call_tool"

====
